---- MODULE Spec2Model ----
(***************************************************************************)
(* The TypeScript and WebAssembly-text compilation pipelines of            *)
(* components/script: two process-wide caches, each behind a reader/writer *)
(* lock, filled by compile_typescript_to_js and compile_wat_to_js and      *)
(* emptied by clear_cache.  Every caller is a thread; every statement that *)
(* takes or drops a lock guard is one step of the thread.                  *)
(***************************************************************************)
EXTENDS Integers, Sequences, FiniteSets, TLC

\* ------------------------------------------------------------------ bounds
\* Number of concurrent callers.
NumThreads == 2
\* The literals of `cache.len() > 1000` and `cache.len() > 100`, scaled down:
\* every formula below is stated in terms of these names, not of the values.
TsCacheLimit == 1
WasmCacheLimit == 1
\* Number of calls a lone caller makes in the sequential specifications.
MaxCalls == 4
\* Length of the byte strings handed to compile_wat_internal directly.
MaxInputLen == 5

Threads == 1..NumThreads

\* ------------------------------------------------------------ plain values
None == <<>>
Ok(v) == <<"Ok", v>>
Err(kind, msg) == <<"Err", kind, msg>>
IsOk(r) == r # None /\ r[1] = "Ok"
IsErr(r) == r # None /\ r[1] = "Err"

\* HashMap::new(), HashMap::insert, HashMap::len.
EmptyMap == [k \in {} |-> 0]
MapInsert(m, k, v) == [x \in (DOMAIN m) \cup {k} |-> IF x = k THEN v ELSE m[x]]
MapLen(m) == Cardinality(DOMAIN m)

RECURSIVE Join(_, _)
Join(strs, sep) ==
    IF strs = <<>> THEN ""
    ELSE IF Len(strs) = 1 THEN strs[1]
    ELSE strs[1] \o sep \o Join(Tail(strs), sep)

\* ------------------------------------------------- the Transform pipeline
\* Sample requests.  The texts stand for arbitrary strings; the file names
\* for arbitrary paths with that extension.
TsSources ==
    {"const x: number = 42;", "f<T>(y);", "let z = 1;", "const x: = 42;", "export = x;"}
TsFilenames == {"test.ts", "test.js"}
\* The calls callers make: the texts the front end accepts under some name
\* and one it rejects, and under the other extension the two texts whose
\* parse depends on it.
TsRequests ==
    {<<"const x: number = 42;", "test.ts">>, <<"const x: number = 42;", "test.js">>,
     <<"f<T>(y);", "test.ts">>, <<"f<T>(y);", "test.js">>,
     <<"let z = 1;", "test.ts">>, <<"const x: = 42;", "test.ts">>}

\* calculate_hash: DefaultHasher (SipHash with fixed keys) of the text, a
\* u64.  It reads the source only and cannot be injective on strings: the
\* last two sample texts stand for a pair of texts with one digest.
calculate_hash_ts(source) ==
    CASE source = "const x: number = 42;" -> 1
      [] source = "f<T>(y);" -> 2
      [] source = "let z = 1;" -> 3
      [] source = "const x: = 42;" -> 3
      [] source = "export = x;" -> 4

\* SourceType::from_path(filename).unwrap_or_else(default().with_typescript(true))
SourceTypeFromPath(filename) ==
    CASE filename = "test.ts" -> "ts"
      [] filename = "test.js" -> "js"
      [] OTHER -> "ts"

\* Parser::new(&allocator, source, source_type).parse().errors, formatted.
ParserErrors(source, source_type) ==
    CASE source = "const x: = 42;" -> <<"Unexpected token">>
      [] source = "const x: number = 42;" /\ source_type = "js"
            -> <<"Unexpected token", "Expected a semicolon">>
      [] source = "export = x;" /\ source_type = "js" -> <<"Unexpected token">>
      [] OTHER -> <<>>

\* Transformer::build_with_scoping(..).errors, formatted: what the lowering
\* reports about the program of this text.
TransformErrors(source, source_type) ==
    CASE source = "export = x;"
            -> <<"export = is only supported when compiling modules to CommonJS">>
      [] OTHER -> <<>>

\* Codegen::new().build(&program).code of the lowered program.
CodegenCode(source, source_type) ==
    CASE source = "const x: number = 42;" -> "const x = 42;\n"
      [] source = "f<T>(y);" /\ source_type = "ts" -> "f(y);\n"
      [] source = "f<T>(y);" /\ source_type = "js" -> "f < T > y;\n"
      [] source = "let z = 1;" -> "let z = 1;\n"
      [] OTHER -> ""

\* Mutation: the lowering's diagnostics are looked at before the parser's.
compile_typescript_internal_transform_first(source, filename) ==
    LET source_type == SourceTypeFromPath(filename)
        parse_errors == ParserErrors(source, source_type)
        transform_errors == TransformErrors(source, source_type)
    IN  IF transform_errors # <<>>
        THEN Err("TransformError", Join(transform_errors, "; "))
        ELSE IF parse_errors # <<>>
        THEN Err("ParseError", Join(parse_errors, "; "))
        ELSE Ok(CodegenCode(source, source_type))

compile_typescript_internal(source, filename) ==
    LET source_type == SourceTypeFromPath(filename)
        parse_errors == ParserErrors(source, source_type)
        transform_errors == TransformErrors(source, source_type)
    IN  IF parse_errors # <<>>
        THEN Err("ParseError", Join(parse_errors, "; "))
        ELSE IF transform_errors # <<>>
        THEN Err("TransformError", Join(transform_errors, "; "))
        ELSE Ok(CodegenCode(source, source_type))

\* Mutation: on overflow one entry is evicted instead of all of them.
ts_store_evicting_one_entry(cache, cache_key, compiled_js) ==
    MapInsert(IF MapLen(cache) > TsCacheLimit
              THEN LET victim == CHOOSE k \in DOMAIN cache : TRUE
                   IN  [k \in (DOMAIN cache) \ {victim} |-> cache[k]]
              ELSE cache,
              cache_key, compiled_js)

\* The store block of compile_typescript_to_js, under the write guard:
\* `if cache.len() > 1000 { cache.clear(); } cache.insert(cache_key, compiled)`.
ts_store(cache, cache_key, compiled_js) ==
    MapInsert(IF MapLen(cache) > TsCacheLimit THEN EmptyMap ELSE cache,
              cache_key, compiled_js)

\* Mutation: the error is stored under the key before it is returned.
compile_typescript_to_js_storing_errors(cache, src, fname) ==
    LET cache_key == calculate_hash_ts(src)
    IN  IF cache_key \in DOMAIN cache
        THEN [result |-> Ok(cache[cache_key]), cache |-> cache, hit |-> TRUE]
        ELSE LET r == compile_typescript_internal(src, fname)
             IN  [result |-> r, hit |-> FALSE,
                  cache |-> ts_store(cache, cache_key, r[Len(r)])]

\* compile_typescript_to_js run by one caller without interleaving: the
\* Result it returns, the cache it leaves, and whether the lookup hit (the
\* delegate runs exactly when it did not).
compile_typescript_to_js(cache, src, fname) ==
    LET cache_key == calculate_hash_ts(src)
    IN  IF cache_key \in DOMAIN cache
        THEN [result |-> Ok(cache[cache_key]), cache |-> cache, hit |-> TRUE]
        ELSE LET r == compile_typescript_internal(src, fname)
             IN  IF IsErr(r)
                 THEN [result |-> r, cache |-> cache, hit |-> FALSE]
                 ELSE [result |-> Ok(r[2]), hit |-> FALSE,
                       cache |-> ts_store(cache, cache_key, r[2])]

\* -------------------------------------------------- the Assembly pipeline
\* A source is the byte sequence of the &str (source.as_bytes()).
WasmMagic == <<0, 97, 115, 109>>                            \* b"\0asm"
WatModule == <<40, 109, 111, 100, 117, 108, 101, 41>>       \* "(module)"
WatFunc == <<40, 109, 111, 100, 117, 108, 101, 32, 40, 102, 117, 110, 99, 41, 41>>
                                                            \* "(module (func))"
WatBroken == <<40>>                                         \* "("
BinModule == <<0, 97, 115, 109, 1, 0, 0, 0>>                \* "\0asm\x01\0\0\0"
BinFunc == <<0, 97, 115, 109, 1, 0, 0, 0, 1, 4, 1, 96, 0, 0, 3, 2, 1, 0,
             10, 4, 1, 2, 0, 11>>

WasmSources == {WatModule, WatFunc, BinModule, BinFunc, WatBroken}
WasmFilenames == {"test.wat", "mod.wasm"}
\* The calls callers make: the file name reaches nothing but the message of
\* the assembler's error, so only the broken text comes under both names.
WasmRequests ==
    {<<WatModule, "test.wat">>, <<WatFunc, "test.wat">>, <<BinModule, "mod.wasm">>,
     <<BinFunc, "mod.wasm">>, <<WatBroken, "test.wat">>, <<WatBroken, "mod.wasm">>}

\* calculate_hash of the Assembly pipeline: the same digest.  Two pairs of
\* sample sources stand for pairs of sources with one digest: a text and a
\* binary, and two texts.
calculate_hash_wasm(source) ==
    CASE source = WatModule -> 1
      [] source = BinFunc -> 1
      [] source = BinModule -> 2
      [] source = WatFunc -> 3
      [] source = WatBroken -> 3
      [] OTHER -> 4

\* wat::parse_str(source): the text assembler.
wat_parse_str(source) ==
    CASE source = WatModule -> Ok(BinModule)
      [] source = WatFunc -> Ok(BinFunc)
      [] OTHER -> Err("wat", "unexpected end-of-file")

\* inject_gc_accessors: returns wasm_binary.to_vec().
inject_gc_accessors(wasm_binary) == Ok(wasm_binary)

\* Mutation: the magic number is looked for anywhere in the source.
is_binary_wasm_sniffing(source_bytes) ==
    \E i \in 1..(Len(source_bytes) - 3) : SubSeq(source_bytes, i, i + 3) = WasmMagic

\* `source_bytes.len() >= 4 && &source_bytes[0..4] == b"\0asm"`
is_binary_wasm(source_bytes) ==
    Len(source_bytes) >= 4 /\ SubSeq(source_bytes, 1, 4) = WasmMagic

compile_wat_internal(source, filename) ==
    IF is_binary_wasm(source)
    THEN inject_gc_accessors(source)
    ELSE LET result == wat_parse_str(source)
         IN  IF IsErr(result)
             THEN Err("ParseError", "in " \o filename \o ": " \o result[3])
             ELSE inject_gc_accessors(result[2])

\* The calls compile_wat_internal makes for this source, in order.
compile_wat_internal_calls(source) ==
    IF is_binary_wasm(source) THEN <<"inject_gc_accessors">>
    ELSE IF IsErr(wat_parse_str(source)) THEN <<"wat::parse_str">>
    ELSE <<"wat::parse_str", "inject_gc_accessors">>

HexDigits == <<"0", "1", "2", "3", "4", "5", "6", "7",
               "8", "9", "A", "B", "C", "D", "E", "F">>
\* format!("0x{:02X}", b)
FormatByte(b) == "0x" \o HexDigits[(b \div 16) + 1] \o HexDigits[(b % 16) + 1]
\* wasm_binary.iter().map(..).collect::<Vec<_>>().join(", ")
ByteArray(wasm_binary) ==
    Join([i \in 1..Len(wasm_binary) |-> FormatByte(wasm_binary[i])], ", ")

\* The format! template around the byte array, as its fixed text before and
\* after the one placeholder.
JsHead == "(function() { try { const wasmBytes = new Uint8Array(["
JsTail == "]); WebAssembly.instantiate(wasmBytes).then(...).catch(...); } catch (e) { console.error(e); } })();"
JsCode(wasm_binary) == JsHead \o ByteArray(wasm_binary) \o JsTail

\* Mutation: the store block inserts without the overflow test.
wasm_store_without_overflow_test(cache, cache_key, binary) ==
    MapInsert(cache, cache_key, binary)

\* The store block of compile_wat_to_js, under the write guard:
\* `if cache.len() > 100 { cache.clear(); } cache.insert(cache_key, binary)`.
wasm_store(cache, cache_key, binary) ==
    MapInsert(IF MapLen(cache) > WasmCacheLimit THEN EmptyMap ELSE cache,
              cache_key, binary)

\* compile_wat_to_js run by one caller without interleaving.
compile_wat_to_js(cache, src, fname) ==
    LET cache_key == calculate_hash_wasm(src)
    IN  IF cache_key \in DOMAIN cache
        THEN [result |-> Ok(JsCode(cache[cache_key])), cache |-> cache, hit |-> TRUE]
        ELSE LET r == compile_wat_internal(src, fname)
             IN  IF IsErr(r)
                 THEN [result |-> r, cache |-> cache, hit |-> FALSE]
                 ELSE [result |-> Ok(JsCode(r[2])), hit |-> FALSE,
                       cache |-> wasm_store(cache, cache_key, r[2])]

\* ------------------------------------------------------------------- state
VARIABLES
    tsCache,       \* typescript_compiler::CACHE, the HashMap<u64, String>
    tsReaders,     \* threads holding a read guard of that RwLock
    tsWriter,      \* the thread inside write() or holding the write guard, or 0
    wasmCache,     \* wasm_compiler::CACHE, the HashMap<u64, Vec<u8>>
    wasmReaders,
    wasmWriter,
    pc,            \* where each thread is
    source,        \* the arguments of the call a thread is in
    filename,
    compiled,      \* the local `compiled` (Transform) or `binary` (Assembly)
    result,        \* the value the call returns
    pipeline,      \* the module whose entry points the callers of this run
                   \* use, or "both"
    log,           \* history: the calls a lone caller has completed, in order
    twin,          \* a second run of the same calls under other file names
    probe          \* the last direct call of an internal function

vars == <<tsCache, tsReaders, tsWriter, wasmCache, wasmReaders, wasmWriter,
          pc, source, filename, compiled, result, pipeline, log, twin, probe>>
tsVars == <<tsCache, tsReaders, tsWriter>>
wasmVars == <<wasmCache, wasmReaders, wasmWriter>>
locals == <<source, filename, compiled, result>>
threadVars == <<tsReaders, tsWriter, wasmReaders, wasmWriter, pc, locals>>
aux == <<pipeline, log, twin, probe>>

\* The locals of a thread that is in no call: an empty text in a run of the
\* Transform pipeline, an empty byte string otherwise.
Blank == IF pipeline = "typescript_compiler" THEN "" ELSE <<>>

Init ==
    /\ pipeline \in {"typescript_compiler", "wasm_compiler"}
    /\ tsCache = EmptyMap /\ tsReaders = {} /\ tsWriter = 0
    /\ wasmCache = EmptyMap /\ wasmReaders = {} /\ wasmWriter = 0
    /\ pc = [t \in Threads |-> "idle"]
    /\ source = [t \in Threads |-> Blank]
    /\ filename = [t \in Threads |-> ""]
    /\ compiled = [t \in Threads |-> Blank]
    /\ result = [t \in Threads |-> None]
    /\ log = <<>>
    /\ twin = [cache |-> EmptyMap, result |-> None, twin_result |-> None]
    /\ probe = None

\* The parking_lot RwLock.  read() goes through when no writer has the
\* writer bit.  write() first takes the writer bit, which needs it free and
\* from then on keeps new readers out, and returns the guard once the readers
\* that were inside have left.  `writer` is the thread that has the bit.
\* Mutation: readers overtake a writer that is waiting for the lock.
CanRead_overtaking_writers(writer) == TRUE
CanRead(writer) == writer = 0
CanTakeWriterBit(writer) == writer = 0
ReadersLeft(readers) == readers = {}

\* ------------------------------------------- compile_typescript_to_js
\* The call and `let cache_key = calculate_hash(source)`.
TsCall(t, s, f) ==
    /\ pipeline = "typescript_compiler"
    /\ pc[t] = "idle"
    /\ pc' = [pc EXCEPT ![t] = "ts_check_cache"]
    /\ source' = [source EXCEPT ![t] = s]
    /\ filename' = [filename EXCEPT ![t] = f]
    /\ UNCHANGED <<aux, tsVars, wasmVars, compiled, result>>

\* `let cache = get_cache().read();`
TsReadLock(t) ==
    /\ pc[t] = "ts_check_cache"
    /\ CanRead(tsWriter)
    /\ tsReaders' = tsReaders \cup {t}
    /\ pc' = [pc EXCEPT ![t] = "ts_lookup"]
    /\ UNCHANGED <<aux, tsCache, tsWriter, wasmVars, locals>>

\* Mutation: a cached text is not trusted but compiled again.
TsLookup_revalidating(t) ==
    /\ pc[t] = "ts_lookup"
    /\ pc' = [pc EXCEPT ![t] = "ts_compile"]
    /\ tsReaders' = tsReaders \ {t}
    /\ UNCHANGED <<aux, tsCache, tsWriter, wasmVars, locals>>

\* Mutation: the read guard is a local of the function body, not of an inner
\* block, and outlives the lookup on a miss.
TsLookup_guard_outlives_block(t) ==
    LET cache_key == calculate_hash_ts(source[t])
    IN  /\ pc[t] = "ts_lookup"
        /\ IF cache_key \in DOMAIN tsCache
           THEN /\ result' = [result EXCEPT ![t] = Ok(tsCache[cache_key])]
                /\ pc' = [pc EXCEPT ![t] = "ts_return"]
                /\ tsReaders' = tsReaders \ {t}
           ELSE /\ result' = result
                /\ pc' = [pc EXCEPT ![t] = "ts_compile"]
                /\ tsReaders' = tsReaders
        /\ UNCHANGED <<aux, tsCache, tsWriter, wasmVars, source, filename, compiled>>

\* `if let Some(cached) = cache.get(&cache_key) { return Ok(cached.clone()); }`
\* and the end of the block, which drops the read guard on both branches.
TsLookup(t) ==
    LET cache_key == calculate_hash_ts(source[t])
    IN  /\ pc[t] = "ts_lookup"
        /\ IF cache_key \in DOMAIN tsCache
           THEN /\ result' = [result EXCEPT ![t] = Ok(tsCache[cache_key])]
                /\ pc' = [pc EXCEPT ![t] = "ts_return"]
           ELSE /\ result' = result
                /\ pc' = [pc EXCEPT ![t] = "ts_compile"]
        /\ tsReaders' = tsReaders \ {t}
        /\ UNCHANGED <<aux, tsCache, tsWriter, wasmVars, source, filename, compiled>>

\* `let compiled = compile_typescript_internal(source, filename)?;`
TsCompile(t) ==
    LET r == compile_typescript_internal(source[t], filename[t])
    IN  /\ pc[t] = "ts_compile"
        /\ IF IsErr(r)
           THEN /\ result' = [result EXCEPT ![t] = r]
                /\ compiled' = compiled
                /\ pc' = [pc EXCEPT ![t] = "ts_return"]
           ELSE /\ compiled' = [compiled EXCEPT ![t] = r[2]]
                /\ result' = result
                /\ pc' = [pc EXCEPT ![t] = "ts_store"]
        /\ UNCHANGED <<aux, tsVars, wasmVars, source, filename>>

\* `let mut cache = get_cache().write();`: the writer bit is taken.
TsWriteLock(t) ==
    /\ pc[t] = "ts_store"
    /\ CanTakeWriterBit(tsWriter)
    /\ tsWriter' = t
    /\ pc' = [pc EXCEPT ![t] = "ts_insert"]
    /\ UNCHANGED <<aux, tsCache, tsReaders, wasmVars, locals>>

\* write() returns the guard; `if cache.len() > 1000 { cache.clear(); }
\* cache.insert(cache_key, compiled.clone());`, the guard dropped at the end of
\* the block, `Ok(compiled)`.
TsInsert(t) ==
    LET cache_key == calculate_hash_ts(source[t])
    IN  /\ pc[t] = "ts_insert"
        /\ ReadersLeft(tsReaders)
        /\ tsCache' = ts_store(tsCache, cache_key, compiled[t])
        /\ tsWriter' = 0
        /\ result' = [result EXCEPT ![t] = Ok(compiled[t])]
        /\ pc' = [pc EXCEPT ![t] = "ts_return"]
        /\ UNCHANGED <<aux, tsReaders, wasmVars, source, filename, compiled>>

\* typescript_compiler::clear_cache: `get_cache().write().clear();`
TsClearCall(t) ==
    /\ pipeline = "typescript_compiler"
    /\ pc[t] = "idle"
    /\ pc' = [pc EXCEPT ![t] = "ts_clear_cache"]
    /\ UNCHANGED <<aux, tsVars, wasmVars, locals>>

TsClearLock(t) ==
    /\ pc[t] = "ts_clear_cache"
    /\ CanTakeWriterBit(tsWriter)
    /\ tsWriter' = t
    /\ pc' = [pc EXCEPT ![t] = "ts_clear"]
    /\ UNCHANGED <<aux, tsCache, tsReaders, wasmVars, locals>>

TsClear(t) ==
    /\ pc[t] = "ts_clear"
    /\ ReadersLeft(tsReaders)
    /\ tsCache' = EmptyMap
    /\ tsWriter' = 0
    /\ pc' = [pc EXCEPT ![t] = "idle"]
    /\ UNCHANGED <<aux, tsReaders, wasmVars, locals>>

\* The caller receives the Result; the frame's locals are gone.
Return(t) ==
    /\ pc[t] \in {"ts_return", "wasm_return"}
    /\ pc' = [pc EXCEPT ![t] = "idle"]
    /\ source' = [source EXCEPT ![t] = Blank]
    /\ filename' = [filename EXCEPT ![t] = ""]
    /\ compiled' = [compiled EXCEPT ![t] = Blank]
    /\ result' = [result EXCEPT ![t] = None]
    /\ UNCHANGED <<aux, tsVars, wasmVars>>

\* --------------------------------------------------- compile_wat_to_js
\* The call and `let cache_key = calculate_hash(source)`.
WasmCall(t, s, f) ==
    /\ pipeline = "wasm_compiler"
    /\ pc[t] = "idle"
    /\ pc' = [pc EXCEPT ![t] = "wasm_check_cache"]
    /\ source' = [source EXCEPT ![t] = s]
    /\ filename' = [filename EXCEPT ![t] = f]
    /\ UNCHANGED <<aux, tsVars, wasmVars, compiled, result>>

\* `let cache = get_cache().read();`
WasmReadLock(t) ==
    /\ pc[t] = "wasm_check_cache"
    /\ CanRead(wasmWriter)
    /\ wasmReaders' = wasmReaders \cup {t}
    /\ pc' = [pc EXCEPT ![t] = "wasm_lookup"]
    /\ UNCHANGED <<aux, wasmCache, wasmWriter, tsVars, locals>>

\* Mutation: `cached` is computed without the inner block, so the read guard
\* lives on into the miss branch.
WasmLookup_guard_outlives_block(t) ==
    LET cache_key == calculate_hash_wasm(source[t])
    IN  /\ pc[t] = "wasm_lookup"
        /\ IF cache_key \in DOMAIN wasmCache
           THEN /\ result' = [result EXCEPT ![t] = Ok(JsCode(wasmCache[cache_key]))]
                /\ pc' = [pc EXCEPT ![t] = "wasm_return"]
                /\ wasmReaders' = wasmReaders \ {t}
           ELSE /\ result' = result
                /\ pc' = [pc EXCEPT ![t] = "wasm_compile"]
                /\ wasmReaders' = wasmReaders
        /\ UNCHANGED <<aux, wasmCache, wasmWriter, tsVars, source, filename, compiled>>

\* `cache.get(&cache_key).cloned()` and the end of the inner block, which
\* drops the read guard; on `Some(binary)` the embedding snippet is built from
\* the cached binary and returned.
WasmLookup(t) ==
    LET cache_key == calculate_hash_wasm(source[t])
    IN  /\ pc[t] = "wasm_lookup"
        /\ IF cache_key \in DOMAIN wasmCache
           THEN /\ result' = [result EXCEPT ![t] = Ok(JsCode(wasmCache[cache_key]))]
                /\ pc' = [pc EXCEPT ![t] = "wasm_return"]
           ELSE /\ result' = result
                /\ pc' = [pc EXCEPT ![t] = "wasm_compile"]
        /\ wasmReaders' = wasmReaders \ {t}
        /\ UNCHANGED <<aux, wasmCache, wasmWriter, tsVars, source, filename, compiled>>

\* `let binary = compile_wat_internal(source, filename)?;`
WasmCompile(t) ==
    LET r == compile_wat_internal(source[t], filename[t])
    IN  /\ pc[t] = "wasm_compile"
        /\ IF IsErr(r)
           THEN /\ result' = [result EXCEPT ![t] = r]
                /\ compiled' = compiled
                /\ pc' = [pc EXCEPT ![t] = "wasm_return"]
           ELSE /\ compiled' = [compiled EXCEPT ![t] = r[2]]
                /\ result' = result
                /\ pc' = [pc EXCEPT ![t] = "wasm_store"]
        /\ UNCHANGED <<aux, tsVars, wasmVars, source, filename>>

\* `let mut cache = get_cache().write();`: the writer bit is taken.
WasmWriteLock(t) ==
    /\ pc[t] = "wasm_store"
    /\ CanTakeWriterBit(wasmWriter)
    /\ wasmWriter' = t
    /\ pc' = [pc EXCEPT ![t] = "wasm_insert"]
    /\ UNCHANGED <<aux, wasmCache, wasmReaders, tsVars, locals>>

\* write() returns the guard; `if cache.len() > 100 { cache.clear(); }
\* cache.insert(cache_key, binary.clone());`, the guard dropped at the end of
\* the block, then the embedding snippet built from `binary` and `Ok(js_code)`.
WasmInsert(t) ==
    LET cache_key == calculate_hash_wasm(source[t])
    IN  /\ pc[t] = "wasm_insert"
        /\ ReadersLeft(wasmReaders)
        /\ wasmCache' = wasm_store(wasmCache, cache_key, compiled[t])
        /\ wasmWriter' = 0
        /\ result' = [result EXCEPT ![t] = Ok(JsCode(compiled[t]))]
        /\ pc' = [pc EXCEPT ![t] = "wasm_return"]
        /\ UNCHANGED <<aux, wasmReaders, tsVars, source, filename, compiled>>

\* wasm_compiler::clear_cache: `get_cache().write().clear();`
WasmClearCall(t) ==
    /\ pipeline = "wasm_compiler"
    /\ pc[t] = "idle"
    /\ pc' = [pc EXCEPT ![t] = "wasm_clear_cache"]
    /\ UNCHANGED <<aux, tsVars, wasmVars, locals>>

WasmClearLock(t) ==
    /\ pc[t] = "wasm_clear_cache"
    /\ CanTakeWriterBit(wasmWriter)
    /\ wasmWriter' = t
    /\ pc' = [pc EXCEPT ![t] = "wasm_clear"]
    /\ UNCHANGED <<aux, wasmCache, wasmReaders, tsVars, locals>>

WasmClear(t) ==
    /\ pc[t] = "wasm_clear"
    /\ ReadersLeft(wasmReaders)
    /\ wasmCache' = EmptyMap
    /\ wasmWriter' = 0
    /\ pc' = [pc EXCEPT ![t] = "idle"]
    /\ UNCHANGED <<aux, wasmReaders, tsVars, locals>>

\* ------------------------------------------------------------ specification
TsSteps(t, requests) ==
    \/ \E r \in requests : TsCall(t, r[1], r[2])
    \/ TsReadLock(t)
    \/ TsLookup(t)
    \/ TsCompile(t)
    \/ TsWriteLock(t)
    \/ TsInsert(t)
    \/ TsClearCall(t)
    \/ TsClearLock(t)
    \/ TsClear(t)
TsStep(t) == TsSteps(t, TsRequests)

WasmSteps(t, requests) ==
    \/ \E r \in requests : WasmCall(t, r[1], r[2])
    \/ WasmReadLock(t)
    \/ WasmLookup(t)
    \/ WasmCompile(t)
    \/ WasmWriteLock(t)
    \/ WasmInsert(t)
    \/ WasmClearCall(t)
    \/ WasmClearLock(t)
    \/ WasmClear(t)
WasmStep(t) == WasmSteps(t, WasmRequests)

Next == \E t \in Threads : TsStep(t) \/ WasmStep(t) \/ Return(t)
Spec == Init /\ [][Next]_vars

\* The same callers under fair scheduling.  A thread that can take its next
\* step inside a call takes it (the delegate terminates, the scheduler is
\* fair); a thread that asks for the lock and could get it again and again
\* does get it (parking_lot hands a lock over to a parked thread: its locks
\* are eventually fair).  Nobody is obliged to start a call.  Each of these
\* steps moves the thread, hence the subscript.  The locks do not look at
\* what is compiled: per module the callers make one request that succeeds,
\* and is then served from the cache, and one that fails.
TsLiveRequests == {<<"let z = 1;", "test.ts">>, <<"const x: = 42;", "test.ts">>}
WasmLiveRequests == {<<WatModule, "test.wat">>, <<WatBroken, "test.wat">>}
Progress(t) ==
    \/ TsLookup(t) \/ TsCompile(t) \/ TsInsert(t) \/ TsClear(t)
    \/ WasmLookup(t) \/ WasmCompile(t) \/ WasmInsert(t) \/ WasmClear(t)
    \/ Return(t)
Acquire(t) ==
    \/ TsReadLock(t) \/ TsWriteLock(t) \/ TsClearLock(t)
    \/ WasmReadLock(t) \/ WasmWriteLock(t) \/ WasmClearLock(t)
NextLive ==
    \E t \in Threads :
        TsSteps(t, TsLiveRequests) \/ WasmSteps(t, WasmLiveRequests) \/ Return(t)
SpecLive ==
    /\ Init /\ [][NextLive]_vars
    /\ \A t \in Threads : WF_pc(Progress(t)) /\ SF_pc(Acquire(t))

\* ------------------------------------------- a lone caller, call by call
\* One caller makes one call at a time; each call runs to its return.
Entry(module, op, s, f, r, hit) ==
    [module |-> module, op |-> op, source |-> s, filename |-> f, result |-> r,
     hit |-> hit]

SeqCompileTs(s, f) ==
    LET r == compile_typescript_to_js(tsCache, s, f)
    IN  /\ pipeline \in {"typescript_compiler", "both"}
        /\ Len(log) < MaxCalls
        /\ tsCache' = r.cache
        /\ log' = Append(log, Entry("typescript_compiler", "compile", s, f, r.result, r.hit))
        /\ UNCHANGED <<wasmCache, threadVars, pipeline, twin, probe>>

\* Mutation: the two modules share one static CACHE, so the reset of one
\* empties the other.
SeqClearTs_sharing_one_cache ==
    /\ pipeline \in {"typescript_compiler", "both"}
    /\ Len(log) < MaxCalls
    /\ tsCache' = EmptyMap
    /\ wasmCache' = EmptyMap
    /\ log' = Append(log, Entry("typescript_compiler", "clear_cache", None, None, None, FALSE))
    /\ UNCHANGED <<threadVars, pipeline, twin, probe>>

SeqClearTs ==
    /\ pipeline \in {"typescript_compiler", "both"}
    /\ Len(log) < MaxCalls
    /\ tsCache' = EmptyMap
    /\ log' = Append(log, Entry("typescript_compiler", "clear_cache", None, None, None, FALSE))
    /\ UNCHANGED <<wasmCache, threadVars, pipeline, twin, probe>>

SeqCompileWat(s, f) ==
    LET r == compile_wat_to_js(wasmCache, s, f)
    IN  /\ pipeline \in {"wasm_compiler", "both"}
        /\ Len(log) < MaxCalls
        /\ wasmCache' = r.cache
        /\ log' = Append(log, Entry("wasm_compiler", "compile", s, f, r.result, r.hit))
        /\ UNCHANGED <<tsCache, threadVars, pipeline, twin, probe>>

SeqClearWasm ==
    /\ pipeline \in {"wasm_compiler", "both"}
    /\ Len(log) < MaxCalls
    /\ wasmCache' = EmptyMap
    /\ log' = Append(log, Entry("wasm_compiler", "clear_cache", None, None, None, FALSE))
    /\ UNCHANGED <<tsCache, threadVars, pipeline, twin, probe>>

NextSeq ==
    \/ \E r \in TsRequests : SeqCompileTs(r[1], r[2])
    \/ SeqClearTs
    \/ \E r \in WasmRequests : SeqCompileWat(r[1], r[2])
    \/ SeqClearWasm
SpecSeq == Init /\ [][NextSeq]_vars

\* One caller that uses both modules, call by call.
InitBoth ==
    /\ pipeline = "both"
    /\ tsCache = EmptyMap /\ tsReaders = {} /\ tsWriter = 0
    /\ wasmCache = EmptyMap /\ wasmReaders = {} /\ wasmWriter = 0
    /\ pc = [t \in Threads |-> "idle"]
    /\ source = [t \in Threads |-> Blank]
    /\ filename = [t \in Threads |-> ""]
    /\ compiled = [t \in Threads |-> Blank]
    /\ result = [t \in Threads |-> None]
    /\ log = <<>>
    /\ twin = [cache |-> EmptyMap, result |-> None, twin_result |-> None]
    /\ probe = None
SpecBoth == InitBoth /\ [][NextSeq]_vars

\* ----------------------------------------- two runs of the same calls
\* The caller's run and a twin run make the same compile calls, source by
\* source; the twin passes its own file name.
TwinCompileTs(s, f, g) ==
    LET r == compile_typescript_to_js(tsCache, s, f)
        q == compile_typescript_to_js(twin.cache, s, g)
    IN  /\ pipeline = "typescript_compiler"
        /\ tsCache' = r.cache
        /\ twin' = [cache |-> q.cache, result |-> r.result, twin_result |-> q.result]
        /\ UNCHANGED <<wasmCache, threadVars, pipeline, log, probe>>

TwinCompileWat(s, f, g) ==
    LET r == compile_wat_to_js(wasmCache, s, f)
        q == compile_wat_to_js(twin.cache, s, g)
    IN  /\ pipeline = "wasm_compiler"
        /\ wasmCache' = r.cache
        /\ twin' = [cache |-> q.cache, result |-> r.result, twin_result |-> q.result]
        /\ UNCHANGED <<tsCache, threadVars, pipeline, log, probe>>

NextTwin ==
    \/ \E r, q \in TsRequests : r[1] = q[1] /\ TwinCompileTs(r[1], r[2], q[2])
    \/ \E r, q \in WasmRequests : r[1] = q[1] /\ TwinCompileWat(r[1], r[2], q[2])
SpecTwin == Init /\ [][NextTwin]_vars

\* ------------------------------------- the internal functions, directly
\* compile_typescript_internal and compile_wat_internal applied to one input
\* in a fresh process, no cache involved.  The byte strings are all strings of at most
\* MaxInputLen bytes over the bytes of the magic number and of "(".
InputBytes == {0, 97, 115, 109, 40}
ByteInputs ==
    WasmSources \cup UNION {[1..n -> InputBytes] : n \in 0..MaxInputLen}

ProbeTsInternal(s, f) ==
    /\ pipeline = "typescript_compiler"
    /\ probe' = [fn |-> "compile_typescript_internal", source |-> s, filename |-> f,
                 result |-> compile_typescript_internal(s, f), calls |-> <<>>]
    /\ UNCHANGED <<tsCache, wasmCache, threadVars, pipeline, log, twin>>

ProbeWatInternal(s, f) ==
    /\ pipeline = "wasm_compiler"
    /\ probe' = [fn |-> "compile_wat_internal", source |-> s, filename |-> f,
                 result |-> compile_wat_internal(s, f),
                 calls |-> compile_wat_internal_calls(s)]
    /\ UNCHANGED <<tsCache, wasmCache, threadVars, pipeline, log, twin>>

\* One call per run.
NextInternal ==
    \/ probe = None /\ \E s \in TsSources, f \in TsFilenames : ProbeTsInternal(s, f)
    \/ probe = None /\ \E s \in ByteInputs, f \in WasmFilenames : ProbeWatInternal(s, f)
SpecInternal == Init /\ [][NextInternal]_vars

\* ------------------------------------------------------------------ claims
\* The pipeline of this run: its cache, its limit, its digest.
Cache == IF pipeline = "typescript_compiler" THEN tsCache ELSE wasmCache
CacheLimit == IF pipeline = "typescript_compiler" THEN TsCacheLimit ELSE WasmCacheLimit
Fingerprint(s) ==
    IF pipeline = "typescript_compiler" THEN calculate_hash_ts(s) ELSE calculate_hash_wasm(s)
IsCompile(e) == e.op = "compile"

\* C1: after every insertion a cache holds at most `capacity` entries, in
\* both pipelines, whatever the callers do.  (A cache grows by insertions
\* only, so this is an invariant of the cache.)
C1_SizeWithinCapacity ==
    /\ MapLen(tsCache) <= TsCacheLimit
    /\ MapLen(wasmCache) <= WasmCacheLimit

\* C2: from an empty cache, after capacity + 1 successful compiles of sources
\* with pairwise distinct fingerprints and nothing else, the cache holds at
\* most `capacity` entries and none of the first `capacity` ones.
C2_OverflowDropsEarlierEntries ==
    ( /\ Len(log) = CacheLimit + 1
      /\ \A i \in 1..Len(log) : IsCompile(log[i]) /\ IsOk(log[i].result)
      /\ \A i, j \in 1..Len(log) :
            i < j => Fingerprint(log[i].source) # Fingerprint(log[j].source) )
    => /\ MapLen(Cache) <= CacheLimit
       /\ \A i \in 1..CacheLimit : Fingerprint(log[i].source) \notin DOMAIN Cache

\* C3: a compile call that returns an error leaves both caches as they were,
\* and the next call with the same source misses the cache and runs the
\* delegate again.
C3_ErrorCall ==
    /\ Len(log') = Len(log) + 1
    /\ IsCompile(log'[Len(log')])
    /\ IsErr(log'[Len(log')].result)
C3_NextCallMisses ==
    \A i \in 1..(Len(log) - 1) :
        ( /\ IsCompile(log[i]) /\ IsErr(log[i].result)
          /\ IsCompile(log[i + 1]) /\ log[i + 1].source = log[i].source )
        => ~log[i + 1].hit
C4_Idempotent ==
    \A i, j \in 1..Len(log) :
        ( /\ i < j
          /\ IsCompile(log[i]) /\ IsCompile(log[j])
          /\ log[i].source = log[j].source /\ log[i].filename = log[j].filename
          /\ IsOk(log[i].result) /\ IsOk(log[j].result) )
        => log[j].result = log[i].result

\* C5: in every reachable cache state and for every input, compile with the
\* cache returns what the always-miss pipeline (an empty cache, so the
\* delegate itself) returns for that input.
C5_CacheTransparent ==
    /\ \A s \in TsSources, f \in TsFilenames :
          compile_typescript_to_js(tsCache, s, f).result
              = compile_typescript_to_js(EmptyMap, s, f).result
    /\ \A s \in WasmSources, f \in WasmFilenames :
          compile_wat_to_js(wasmCache, s, f).result
              = compile_wat_to_js(EmptyMap, s, f).result

\* C6: two runs of the same compile calls that differ in the labels only
\* agree on each call's success or failure and output, and on the cache
\* after each call.
C6_LabelNeverInterpreted ==
    /\ IsOk(twin.result) <=> IsOk(twin.twin_result)
    /\ IsOk(twin.result) => twin.result = twin.twin_result
    /\ twin.cache = Cache

\* C7: once a compile of (source, label) has returned an error, every later
\* compile of the same (source, label) returns that same error.
C7_DeterministicFailure ==
    \A i, j \in 1..Len(log) :
        ( /\ i < j
          /\ IsCompile(log[i]) /\ IsCompile(log[j])
          /\ log[i].source = log[j].source /\ log[i].filename = log[j].filename
          /\ IsErr(log[i].result) )
        => log[j].result = log[i].result

\* C8: no caller holds a guard of a cache lock while its delegate runs; a
\* read guard is out only during the map lookup, a write guard only during
\* the clear-and-insert step (or clear_cache's clear).
C8_NoLockAcrossDelegate ==
    \A t \in Threads :
        /\ pc[t] \in {"ts_compile", "wasm_compile"} =>
              /\ t \notin tsReaders \cup wasmReaders
              /\ tsWriter # t /\ wasmWriter # t
        /\ t \in tsReaders => pc[t] = "ts_lookup"
        /\ t \in wasmReaders => pc[t] = "wasm_lookup"
        /\ tsWriter = t => pc[t] \in {"ts_insert", "ts_clear"}
        /\ wasmWriter = t => pc[t] \in {"wasm_insert", "wasm_clear"}
\* One caller's delegate runs while another caller holds the lock.
C8_Witness ==
    \E t, u \in Threads :
        \/ pc[t] = "ts_compile" /\ (u \in tsReaders \/ tsWriter = u)
        \/ pc[t] = "wasm_compile" /\ (u \in wasmReaders \/ wasmWriter = u)

\* C9: two callers that compile the same uncached source at the same time
\* both run the delegate without waiting for each other, both insert and
\* return success with the same output, and each insert leaves the single
\* entry of that fingerprint holding the value it wrote (the later one wins).
C9_DelegateDone(t) ==
    \/ pc[t] \in {"ts_store", "ts_insert", "wasm_store", "wasm_insert"}
    \/ pc[t] \in {"ts_return", "wasm_return"} /\ IsErr(result[t])
C9_SameOutcome ==
    \A t, u \in Threads :
        ( /\ t # u
          /\ pc[t] \in {"ts_store", "ts_insert", "wasm_store", "wasm_insert"}
          /\ C9_DelegateDone(u)
          /\ source[u] = source[t] )
        => /\ ~IsErr(result[u])
           /\ compiled[u] = compiled[t]
C9_NobodyWaits ==
    \A t \in Threads :
        /\ pc[t] = "ts_compile" => ENABLED TsCompile(t)
        /\ pc[t] = "wasm_compile" => ENABLED WasmCompile(t)
C9_LastInsertWins ==
    \A t \in Threads :
        /\ (pc[t] = "ts_insert" /\ pc'[t] = "ts_return") =>
              /\ tsCache'[calculate_hash_ts(source[t])] = compiled[t]
              /\ result'[t] = Ok(compiled[t])
        /\ (pc[t] = "wasm_insert" /\ pc'[t] = "wasm_return") =>
              /\ wasmCache'[calculate_hash_wasm(source[t])] = compiled[t]
              /\ result'[t] = Ok(JsCode(compiled[t]))
C9_DuplicateMisses ==
    [][C9_SameOutcome' /\ C9_NobodyWaits /\ C9_LastInsertWins]_vars

\* C10: clear_cache may run between any two steps of in-flight compiles:
\* each of them still returns what it would have returned without the clear,
\* every entry in a cache is a whole output, and all the clear does is empty
\* the cache of its pipeline.
\* What the call thread t is in returns when t runs on alone from here,
\* the cache of its pipeline being `cache`.
OutcomeTs(t, cache) ==
    CASE pc[t] \in {"ts_check_cache", "ts_lookup"} ->
            compile_typescript_to_js(cache, source[t], filename[t]).result
      [] pc[t] = "ts_compile" ->
            compile_typescript_to_js(EmptyMap, source[t], filename[t]).result
      [] pc[t] \in {"ts_store", "ts_insert"} -> Ok(compiled[t])
      [] pc[t] = "ts_return" -> result[t]
      [] OTHER -> None
OutcomeWasm(t, cache) ==
    CASE pc[t] \in {"wasm_check_cache", "wasm_lookup"} ->
            compile_wat_to_js(cache, source[t], filename[t]).result
      [] pc[t] = "wasm_compile" ->
            compile_wat_to_js(EmptyMap, source[t], filename[t]).result
      [] pc[t] \in {"wasm_store", "wasm_insert"} -> Ok(JsCode(compiled[t]))
      [] pc[t] = "wasm_return" -> result[t]
      [] OTHER -> None
TsOutputs ==
    {compile_typescript_internal(p[1], p[2])[2] :
        p \in {q \in TsSources \X TsFilenames :
                  IsOk(compile_typescript_internal(q[1], q[2]))}}
WasmBinaries ==
    {compile_wat_internal(p[1], p[2])[2] :
        p \in {q \in WasmSources \X WasmFilenames :
                  IsOk(compile_wat_internal(q[1], q[2]))}}
C10_WholeEntries ==
    /\ \A k \in DOMAIN tsCache : tsCache[k] \in TsOutputs
    /\ \A k \in DOMAIN wasmCache : wasmCache[k] \in WasmBinaries
C10_ClearStep ==
    \A t \in Threads :
        /\ (pc[t] = "ts_clear" /\ pc'[t] = "idle") =>
              /\ tsCache' = EmptyMap /\ wasmCache' = wasmCache
              /\ \A u \in Threads : OutcomeTs(u, tsCache') = OutcomeTs(u, tsCache)
        /\ (pc[t] = "wasm_clear" /\ pc'[t] = "idle") =>
              /\ wasmCache' = EmptyMap /\ tsCache' = tsCache
              /\ \A u \in Threads : OutcomeWasm(u, wasmCache') = OutcomeWasm(u, wasmCache)
C10_ClearIsTransparent == [][C10_ClearStep /\ C10_WholeEntries']_vars

\* C11: for every source that starts with the magic number, the assembler is
\* not called, the accessor stage returns its input unchanged, and once the
\* compile call has returned the binary cached under the source's fingerprint
\* is the source, byte for byte.
C11_Last == log[Len(log)]
C11_BinaryPassThrough ==
    /\ \A s \in WasmSources, f \in WasmFilenames :
          is_binary_wasm(s) =>
              /\ compile_wat_internal_calls(s) = <<"inject_gc_accessors">>
              /\ inject_gc_accessors(s) = Ok(s)
              /\ compile_wat_internal(s, f) = Ok(s)
    /\ ( /\ pipeline = "wasm_compiler" /\ Len(log) > 0
          /\ IsCompile(C11_Last) /\ is_binary_wasm(C11_Last.source) )
       => /\ calculate_hash_wasm(C11_Last.source) \in DOMAIN wasmCache
          /\ wasmCache[calculate_hash_wasm(C11_Last.source)] = C11_Last.source

\* C12: the snippet is rebuilt from the binary on every call: a hit returns
\* the snippet of the miss that stored the entry, the byte-array literal of a
\* returned snippet reads back as the binary it was built from, and for a
\* binary source as the bytes of the source.
\* The text between the fixed head and tail of a snippet, and the bytes its
\* hexadecimal literals denote.
C12_Literal(js) == SubSeq(js, Len(JsHead) + 1, Len(js) - Len(JsTail))
C12_HexValue(ch) == (CHOOSE k \in 1..16 : HexDigits[k] = ch) - 1
C12_Decode(lit) ==
    [i \in 1..((Len(lit) + 2) \div 6) |->
        16 * C12_HexValue(SubSeq(lit, 6 * i - 3, 6 * i - 3))
           + C12_HexValue(SubSeq(lit, 6 * i - 2, 6 * i - 2))]
C12_Populated(i, j) ==
    /\ i < j
    /\ IsCompile(log[i]) /\ ~log[i].hit /\ IsOk(log[i].result)
    /\ IsCompile(log[j]) /\ log[j].hit
    /\ calculate_hash_wasm(log[i].source) = calculate_hash_wasm(log[j].source)
    /\ \A k \in (i + 1)..(j - 1) :
          ~( /\ IsCompile(log[k]) /\ ~log[k].hit /\ IsOk(log[k].result)
             /\ calculate_hash_wasm(log[k].source) = calculate_hash_wasm(log[j].source) )
C12_HitRepeatsMiss ==
    \A i, j \in 1..Len(log) : C12_Populated(i, j) => log[j].result = log[i].result
C12_LiteralIsBinary ==
    \A i \in 1..Len(log) :
        (IsCompile(log[i]) /\ IsOk(log[i].result)) =>
            /\ i = Len(log) =>
                  C12_Decode(C12_Literal(log[i].result[2]))
                      = wasmCache[calculate_hash_wasm(log[i].source)]
            /\ ~log[i].hit =>
                  Ok(C12_Decode(C12_Literal(log[i].result[2])))
                      = compile_wat_internal(log[i].source, log[i].filename)
C12_LiteralIsInput ==
    \A i \in 1..Len(log) :
        (IsCompile(log[i]) /\ is_binary_wasm(log[i].source)) =>
            /\ IsOk(log[i].result)
            /\ C12_Decode(C12_Literal(log[i].result[2])) = log[i].source
C12_SnippetFromBinary ==
    pipeline = "wasm_compiler" =>
        C12_HitRepeatsMiss /\ C12_LiteralIsBinary /\ C12_LiteralIsInput

\* C13: the two caches are disjoint: a compile_typescript_to_js call and
\* typescript_compiler::clear_cache leave the Assembly cache as it was, a
\* compile_wat_to_js call and wasm_compiler::clear_cache leave the Transform
\* cache as it was.
C13_Frame ==
    Len(log') = Len(log) + 1 =>
        /\ log'[Len(log')].module = "typescript_compiler" => wasmCache' = wasmCache
        /\ log'[Len(log')].module = "wasm_compiler" => tsCache' = tsCache
C13_DisjointCaches == [][C13_Frame]_vars
\* Both caches hold entries and the caller has since reset one of them or
\* added to it.
C13_Witness ==
    /\ pipeline = "both"
    /\ \E i, j, k \in 1..Len(log) :
          /\ i < k /\ j < k
          /\ IsCompile(log[i]) /\ log[i].module = "typescript_compiler"
          /\ IsCompile(log[j]) /\ log[j].module = "wasm_compiler"
          /\ IsOk(log[i].result) /\ IsOk(log[j].result)
          /\ log[k].op = "clear_cache"
    /\ (tsCache = EmptyMap) # (wasmCache = EmptyMap)

\* C14: in the Transform pipeline the first stage that reports diagnostics, in
\* the order parse, lower, decides the error and there is no output: parser
\* diagnostics give ParseError, lowering diagnostics give TransformError, each
\* with the messages joined by "; "; Codegen::build reports no diagnostics, so
\* a program that was lowered is always rendered and CodegenError is never
\* returned.  In the Assembly pipeline every error is a ParseError and comes
\* from the assembler.
C14_Transform ==
    LET source_type == SourceTypeFromPath(probe.filename)
        parse_errors == ParserErrors(probe.source, source_type)
        transform_errors == TransformErrors(probe.source, source_type)
    IN  /\ parse_errors # <<>> =>
              probe.result = Err("ParseError", Join(parse_errors, "; "))
        /\ (parse_errors = <<>> /\ transform_errors # <<>>) =>
              probe.result = Err("TransformError", Join(transform_errors, "; "))
        /\ (parse_errors = <<>> /\ transform_errors = <<>>) => IsOk(probe.result)
        /\ IsErr(probe.result) => probe.result[2] \in {"ParseError", "TransformError"}
C14_Assembly ==
    IsErr(probe.result) =>
        /\ probe.result[2] = "ParseError"
        /\ probe.calls = <<"wat::parse_str">>
        /\ IsErr(wat_parse_str(probe.source))
        /\ probe.result[3]
              = "in " \o probe.filename \o ": " \o wat_parse_str(probe.source)[3]
C14_StageErrors ==
    probe # None =>
        /\ probe.fn = "compile_typescript_internal" => C14_Transform
        /\ probe.fn = "compile_wat_internal" => C14_Assembly
\* A text both the parser and the lowering complain about: ParseError.
C14_Witness ==
    /\ probe # None
    /\ probe.fn = "compile_typescript_internal"
    /\ ParserErrors(probe.source, SourceTypeFromPath(probe.filename)) # <<>>
    /\ TransformErrors(probe.source, SourceTypeFromPath(probe.filename)) # <<>>
    /\ probe.result[2] = "ParseError"

\* C15: an insertion that finds more than `capacity` entries empties the
\* cache first, so that afterwards the cache holds the new entry and nothing
\* else; an insertion that finds at most `capacity` entries leaves every entry
\* of another fingerprint in place.
C15_Inserted == log'[Len(log')]
C15_Insertion ==
    ( /\ Len(log') = Len(log) + 1
      /\ IsCompile(C15_Inserted) /\ ~C15_Inserted.hit /\ IsOk(C15_Inserted.result) )
    => LET key == Fingerprint(C15_Inserted.source)
       IN  /\ key \in DOMAIN Cache'
           /\ pipeline = "typescript_compiler" => Cache'[key] = C15_Inserted.result[2]
           /\ pipeline = "wasm_compiler" =>
                 Ok(Cache'[key])
                     = compile_wat_internal(C15_Inserted.source, C15_Inserted.filename)
           /\ IF MapLen(Cache) > CacheLimit
              THEN DOMAIN Cache' = {key}
              ELSE \A k \in DOMAIN Cache :
                      k # key => k \in DOMAIN Cache' /\ Cache'[k] = Cache[k]
C15_WholesaleClear == [][C15_Insertion]_vars
\* capacity + 2 insertions of distinct fingerprints in a row: the last one
\* found capacity + 1 entries and is now alone.
C15_Witness ==
    /\ Len(log) = CacheLimit + 2
    /\ \A i \in 1..Len(log) :
          IsCompile(log[i]) /\ ~log[i].hit /\ IsOk(log[i].result)
    /\ \A i, j \in 1..Len(log) :
          i < j => Fingerprint(log[i].source) # Fingerprint(log[j].source)
    /\ DOMAIN Cache = {Fingerprint(log[Len(log)].source)}

\* C16: a lookup that finds the key returns the stored artifact (the text, or
\* the snippet built from the stored binary): the caller goes from the lookup
\* straight to its return, the delegate does not run, and the cache is not
\* touched, neither by the lookup nor on the way out.
C16_HitStep ==
    \A t \in Threads :
        /\ ( /\ pc[t] = "ts_lookup" /\ pc'[t] # "ts_lookup"
              /\ calculate_hash_ts(source[t]) \in DOMAIN tsCache )
           => /\ pc'[t] = "ts_return"
              /\ result'[t] = Ok(tsCache[calculate_hash_ts(source[t])])
              /\ Len(compiled'[t]) = 0
              /\ tsCache' = tsCache
        /\ ( /\ pc[t] = "wasm_lookup" /\ pc'[t] # "wasm_lookup"
              /\ calculate_hash_wasm(source[t]) \in DOMAIN wasmCache )
           => /\ pc'[t] = "wasm_return"
              /\ result'[t] = Ok(JsCode(wasmCache[calculate_hash_wasm(source[t])]))
              /\ Len(compiled'[t]) = 0
              /\ wasmCache' = wasmCache
        /\ (pc[t] \in {"ts_return", "wasm_return"} /\ pc'[t] # pc[t])
           => pc'[t] = "idle" /\ tsCache' = tsCache /\ wasmCache' = wasmCache
C16_HitLeavesCache == [][C16_HitStep]_vars
\* A call that is returning a cached artifact: it never ran the delegate.
C16_Witness ==
    \E t \in Threads :
        /\ pc[t] \in {"ts_return", "wasm_return"}
        /\ IsOk(result[t]) /\ Len(compiled[t]) = 0
        /\ Cache # EmptyMap

\* C17: an entry keeps its value for as long as it is in the cache: a step
\* that does not clear the cache (every earlier key is still there) leaves
\* the value of every earlier key as it was, whatever the callers and their
\* sources are.
C17_NoReplacement ==
    /\ (DOMAIN tsCache) \subseteq (DOMAIN tsCache') =>
          \A k \in DOMAIN tsCache : tsCache'[k] = tsCache[k]
    /\ (DOMAIN wasmCache) \subseteq (DOMAIN wasmCache') =>
          \A k \in DOMAIN wasmCache : wasmCache'[k] = wasmCache[k]
C17_EntriesImmutable == [][C17_NoReplacement]_vars

\* C18: compile_wat_internal treats its input as binary exactly when the
\* input has at least four bytes and the first four are \0asm, so that an
\* input is treated as its first four bytes alone would be; every other
\* input, the ones shorter than four bytes included, goes to the text
\* assembler; and a binary input never yields an error.
C18_StartsWithMagic(s) ==
    Len(s) >= 4 /\ s[1] = 0 /\ s[2] = 97 /\ s[3] = 115 /\ s[4] = 109
C18_PassedThrough == probe.calls = <<"inject_gc_accessors">>
C18_Assembled == probe.calls[1] = "wat::parse_str"
C18_FormatDetection ==
    (probe # None /\ probe.fn = "compile_wat_internal") =>
        /\ C18_PassedThrough <=> C18_StartsWithMagic(probe.source)
        /\ C18_Assembled <=> ~C18_StartsWithMagic(probe.source)
        /\ Len(probe.source) < 4 => C18_Assembled
        /\ C18_PassedThrough => probe.result = Ok(probe.source)
        /\ C18_Assembled => (IsErr(probe.result) <=> IsErr(wat_parse_str(probe.source)))
        /\ Len(probe.source) >= 4 =>
              (C18_PassedThrough <=> is_binary_wasm(SubSeq(probe.source, 1, 4)))
\* A text that holds the magic number, but not at its start, is assembled.
C18_Witness ==
    /\ probe # None /\ probe.fn = "compile_wat_internal"
    /\ \E i \in 2..(Len(probe.source) - 3) : SubSeq(probe.source, i, i + 3) = WasmMagic
    /\ C18_Assembled

\* C19: under fair scheduling and with a delegate that terminates, a caller
\* that asks for the write lock, to insert or to clear, gets into the
\* exclusive section and out of it, whatever lookups the other callers make,
\* and every compile call returns.
C19_WantsWrite(t) ==
    pc[t] \in {"ts_store", "ts_insert", "ts_clear_cache", "ts_clear",
               "wasm_store", "wasm_insert", "wasm_clear_cache", "wasm_clear"}
C19_InCompile(t) ==
    pc[t] \in {"ts_check_cache", "ts_lookup", "ts_compile", "ts_store", "ts_insert",
               "wasm_check_cache", "wasm_lookup", "wasm_compile", "wasm_store",
               "wasm_insert"}
C19_Liveness ==
    \A t \in Threads :
        /\ C19_WantsWrite(t) ~> ~C19_WantsWrite(t)
        /\ C19_InCompile(t) ~> pc[t] \in {"ts_return", "wasm_return"}
\* A caller inside write() waits for another caller's lookup to finish.
C19_Witness ==
    \E t, u \in Threads :
        /\ t # u
        /\ \/ pc[t] \in {"ts_insert", "ts_clear"} /\ u \in tsReaders
           \/ pc[t] \in {"wasm_insert", "wasm_clear"} /\ u \in wasmReaders

\* C20: for a valid WAT text compile_wat_to_js succeeds, and the JavaScript it
\* returns mentions WebAssembly and carries the binary as a base64 data URL,
\* that is, contains "data:application/wasm;base64,".
C20_Contains(text, needle) ==
    \E i \in 1..(Len(text) - Len(needle) + 1) :
        SubSeq(text, i, i + Len(needle) - 1) = needle
C20_ValidWat(e) ==
    /\ e.module = "wasm_compiler" /\ IsCompile(e)
    /\ ~is_binary_wasm(e.source) /\ IsOk(wat_parse_str(e.source))
C20_Base64DataUrl ==
    \A i \in 1..Len(log) :
        C20_ValidWat(log[i]) =>
            /\ IsOk(log[i].result)
            /\ C20_Contains(log[i].result[2], "WebAssembly")
            /\ C20_Contains(log[i].result[2], "data:application/wasm;base64,")

\* C21: no caller asks for the write lock of a cache while it holds a read
\* guard of it (the lookup's guard is gone on the hit and on the miss branch
\* alike), and the callers never all wait for the lock at once: whenever a
\* caller is in a call, some caller in a call can take its next step.
C21_AsksForWrite(t) ==
    pc[t] \in {"ts_store", "ts_insert", "ts_clear_cache", "ts_clear",
               "wasm_store", "wasm_insert", "wasm_clear_cache", "wasm_clear"}
C21_PastLookup(t) ==
    pc[t] \in {"ts_compile", "ts_return", "wasm_compile", "wasm_return"}
C21_Blocked(t) == pc[t] # "idle" /\ ~ENABLED (Progress(t) \/ Acquire(t))
C21_NoLockUpgrade ==
    /\ \A t \in Threads :
          (C21_AsksForWrite(t) \/ C21_PastLookup(t)) =>
              t \notin tsReaders \cup wasmReaders
    /\ (\E t \in Threads : pc[t] # "idle") =>
          \E t \in Threads : pc[t] # "idle" /\ ~C21_Blocked(t)
\* Every caller but one waits for the lock: one inside write() for the
\* reader to leave, the others for the writer.
C21_Witness ==
    \E u \in Threads :
        /\ u \in tsReaders \cup wasmReaders
        /\ \A t \in Threads \ {u} : C21_Blocked(t)
        /\ \E t \in Threads : t \in {tsWriter, wasmWriter}

\* C22: every entry of a cache was written by a compile call that succeeded:
\* its key is the fingerprint of that call's source and its value the
\* delegate's output for that call; and the cache holds no entry for a source
\* that was never submitted or whose compilations all failed, that is, a
\* source whose fingerprint is a key of the cache has been compiled with
\* success by the delegate.
C22_Sources == IF pipeline = "typescript_compiler" THEN TsSources ELSE WasmSources
C22_Delegate(s, f) ==
    IF pipeline = "typescript_compiler"
    THEN compile_typescript_internal(s, f) ELSE compile_wat_internal(s, f)
C22_Compiled(e) == IsCompile(e) /\ ~e.hit /\ IsOk(e.result)
C22_EntriesWritten ==
    \A k \in DOMAIN Cache :
        \E i \in 1..Len(log) :
            /\ C22_Compiled(log[i])
            /\ Fingerprint(log[i].source) = k
            /\ Ok(Cache[k]) = C22_Delegate(log[i].source, log[i].filename)
C22_NoForeignEntries ==
    \A s \in C22_Sources :
        Fingerprint(s) \in DOMAIN Cache =>
            \E i \in 1..Len(log) : C22_Compiled(log[i]) /\ log[i].source = s
C22_CacheSound == C22_EntriesWritten /\ C22_NoForeignEntries

\* C23: in every reachable state the Transform cache holds at most
\* TsCacheLimit + 1 entries and the Assembly cache at most WasmCacheLimit + 1
\* (1001 and 101 in the source), whatever the number of callers: the test
\* `len > limit` and the insert happen in one step under the write guard, so
\* an insert finds at most `limit` entries or an emptied cache.
C23_SizeBound ==
    /\ MapLen(tsCache) <= TsCacheLimit + 1
    /\ MapLen(wasmCache) <= WasmCacheLimit + 1
    /\ \A t \in Threads :
          /\ pc[t] = "ts_insert" => tsWriter = t
          /\ pc[t] = "wasm_insert" => wasmWriter = t
\* The bound is met, while another caller is about to insert one more key.
C23_Witness ==
    \E t \in Threads :
        \/ /\ MapLen(tsCache) = TsCacheLimit + 1
           /\ pc[t] = "ts_insert"
           /\ calculate_hash_ts(source[t]) \notin DOMAIN tsCache
        \/ /\ MapLen(wasmCache) = WasmCacheLimit + 1
           /\ pc[t] = "wasm_insert"
           /\ calculate_hash_wasm(source[t]) \notin DOMAIN wasmCache

====
